---- MODULE Spec2Model ----
(***************************************************************************)
(* Model of rust_read_ecs_table (src/src/main.rs): connect to the ODBC     *)
(* data source, run one SELECT, and for every fetched row decode the 18    *)
(* raw column values into an Event and print it as a block of labelled     *)
(* lines.                                                                  *)
(*                                                                         *)
(* Raw column values are TLA+ strings; Option<T> is a sequence of length   *)
(* 0 (None) or 1 (Some); Result<T, E> is a record with an `ok` flag.       *)
(* Once exec_direct has returned Data, the driver is taken to deliver      *)
(* every row and column of the result set (stmt.fetch and cursor.get_data  *)
(* return Ok): the rows are the input of the program, a row being 18       *)
(* present-or-absent raw values.                                           *)
(***************************************************************************)
EXTENDS Integers, Sequences, FiniteSets

(***************************************************************************)
(* The state of a run of main, and the record of what its runs decoded     *)
(***************************************************************************)
VARIABLES
    pc,         \* the statement main is about to execute
    table,      \* the rows of GECSEVENTS, in the order the driver returns them
    resultSet,  \* "none", then the variant exec_direct returned
    fetched,    \* number of rows stmt.fetch() has returned
    cursor,     \* Some(row) while a fetched row is being processed
    event,      \* Some(Event) between its construction and its printing
    stdout,     \* lines written by println!
    stderr,     \* lines written to the error stream
    exit,       \* "running", then "success", "failure" or "panic"
    runs,       \* number of times the program has been started
    history     \* <<row, outcome, run, position>> of every decoding so far

vars ==
    <<pc, table, resultSet, fetched, cursor, event, stdout, stderr, exit,
      runs, history>>

(***************************************************************************)
(* Option and Result                                                       *)
(***************************************************************************)
None == <<>>

Some(v) == <<v>>

IsSome(o) == Len(o) = 1

Unwrap(o) == o[1]

Ok(v) == [ok |-> TRUE, val |-> v]

Err(e) == [ok |-> FALSE, err |-> e]

\* Result::ok(): Ok(v) -> Some(v), Err(_) -> None
ResultOk(r) == IF r.ok THEN Some(r.val) ELSE None

(***************************************************************************)
(* Characters and decimal text                                             *)
(***************************************************************************)
DigitString == "0123456789"

\* the character of s at position i, "" past the end
Char(s, i) == IF i >= 1 /\ i <= Len(s) THEN SubSeq(s, i, i) ELSE ""

DigitChars == {SubSeq(DigitString, d + 1, d + 1) : d \in 0..9}

IsDigit(c) == c \in DigitChars

DigitVal(c) == CHOOSE d \in 0..9 : SubSeq(DigitString, d + 1, d + 1) = c

DigitChar(d) == SubSeq(DigitString, d + 1, d + 1)

I32Max == 2147483647

I32Min == -2147483647 - 1

U8Max == 255

(***************************************************************************)
(* str::parse::<i32>() and str::parse::<u8>() (core::num::from_str_radix,  *)
(* radix 10): an optional sign, then one or more digits, accumulated left  *)
(* to right with checked arithmetic.  A '-' is a sign only for a signed    *)
(* type.                                                                   *)
(***************************************************************************)
RECURSIVE AccumulatePos(_, _, _, _)
AccumulatePos(s, i, acc, max) ==
    IF i > Len(s) THEN Ok(acc)
    ELSE IF ~IsDigit(Char(s, i)) THEN Err("InvalidDigit")
    ELSE LET d == DigitVal(Char(s, i))
         IN  IF acc > max \div 10 THEN Err("PosOverflow")
             ELSE IF acc * 10 > max - d THEN Err("PosOverflow")
             ELSE AccumulatePos(s, i + 1, acc * 10 + d, max)

RECURSIVE AccumulateNeg(_, _, _, _)
AccumulateNeg(s, i, acc, min) ==
    IF i > Len(s) THEN Ok(acc)
    ELSE IF ~IsDigit(Char(s, i)) THEN Err("InvalidDigit")
    ELSE LET d == DigitVal(Char(s, i))
         IN  IF acc < -((-(min + 1)) \div 10) THEN Err("NegOverflow")
             ELSE IF acc * 10 < min + d THEN Err("NegOverflow")
             ELSE AccumulateNeg(s, i + 1, acc * 10 - d, min)

FromStrRadix10(s, signed, min, max) ==
    IF Len(s) = 0 THEN Err("Empty")
    ELSE IF Len(s) = 1 /\ Char(s, 1) \in {"+", "-"} THEN Err("InvalidDigit")
    ELSE IF Char(s, 1) = "+" THEN AccumulatePos(s, 2, 0, max)
    ELSE IF Char(s, 1) = "-" /\ signed THEN AccumulateNeg(s, 2, 0, min)
    ELSE AccumulatePos(s, 1, 0, max)

ParseI32(s) == FromStrRadix10(s, TRUE, I32Min, I32Max)

\* variant: parsed as i32 and truncated to 8 bits (`as u8`)
ParseU8Truncating(s) ==
    LET r == FromStrRadix10(s, TRUE, I32Min, I32Max)
    IN  IF r.ok THEN Ok(r.val % (U8Max + 1)) ELSE r

ParseU8(s) == FromStrRadix10(s, FALSE, 0, U8Max)

(***************************************************************************)
(* Integer to_string(): decimal digits, '-' in front of a negative number. *)
(***************************************************************************)
RECURSIVE NatToString(_)
NatToString(n) ==
    IF n < 10 THEN DigitChar(n)
    ELSE NatToString(n \div 10) \o DigitChar(n % 10)

\* digits of the magnitude of n <= 0, without negating n (I32Min has no
\* positive counterpart in 32 bits)
RECURSIVE NegMagnitudeToString(_)
NegMagnitudeToString(n) ==
    LET d == (10 - (n % 10)) % 10
        rest == (n + d) \div 10
    IN  IF rest = 0 THEN DigitChar(d)
        ELSE NegMagnitudeToString(rest) \o DigitChar(d)

IntToString(n) ==
    IF n < 0 THEN "-" \o NegMagnitudeToString(n) ELSE NatToString(n)

(***************************************************************************)
(* chrono: NaiveDateTime::parse_from_str(s, fmt) and its Display.          *)
(* A format is a sequence of items; a numeric item takes 1..width digits,  *)
(* a literal item takes exactly its character, and the fractional item     *)
(* (%.f) takes nothing unless the input continues with '.', in which case  *)
(* it takes the dot and the digits after it (the first 9 count).  Input    *)
(* left over after the last item is an error.  The blank of the format is  *)
(* matched as one blank, and a year is 1..4 digits without a sign: the     *)
(* raw values of RawTimestamps below hold no other blanks and no signs.    *)
(***************************************************************************)
Num(field, width) == [kind |-> "num", field |-> field, width |-> width]

Lit(c) == [kind |-> "lit", field |-> c, width |-> 1]

Nanosecond == [kind |-> "nano", field |-> "nano", width |-> 9]

\* "%Y-%m-%d %H:%M:%S": the format of submitted, ended, dateclosed, added
FormatSeconds ==
    << Num("year", 4), Lit("-"), Num("month", 2), Lit("-"), Num("day", 2),
       Lit(" "),
       Num("hour", 2), Lit(":"), Num("minute", 2), Lit(":"), Num("second", 2) >>

\* "%Y-%m-%d %H:%M:%S%.f": the format of began
FormatFraction == Append(FormatSeconds, Nanosecond)

NoFields ==
    [year |-> 0, month |-> 0, day |-> 0, hour |-> 0, minute |-> 0,
     second |-> 0, nano |-> 0]

\* number of consecutive digits of s from position i, at most max
RECURSIVE DigitRun(_, _, _)
DigitRun(s, i, max) ==
    IF max = 0 \/ ~IsDigit(Char(s, i)) THEN 0
    ELSE 1 + DigitRun(s, i + 1, max - 1)

\* value of the n digits of s from position i
RECURSIVE NumberAt(_, _, _)
NumberAt(s, i, n) ==
    IF n = 0 THEN 0
    ELSE NumberAt(s, i, n - 1) * 10 + DigitVal(Char(s, i + n - 1))

RECURSIVE Pow10(_)
Pow10(n) == IF n = 0 THEN 1 ELSE 10 * Pow10(n - 1)

ShortOrInvalid(s, i) == IF i > Len(s) THEN Err("TooShort") ELSE Err("Invalid")

RECURSIVE ParseItems(_, _, _, _, _)
ParseItems(s, i, items, k, parsed) ==
    IF k > Len(items)
    THEN IF i > Len(s) THEN Ok(parsed) ELSE Err("TooLong")
    ELSE LET item == items[k]
         IN  CASE item.kind = "lit" ->
                    IF Char(s, i) = item.field
                    THEN ParseItems(s, i + 1, items, k + 1, parsed)
                    ELSE ShortOrInvalid(s, i)
               [] item.kind = "num" ->
                    LET n == DigitRun(s, i, item.width)
                    IN  IF n = 0 THEN ShortOrInvalid(s, i)
                        ELSE ParseItems(s, i + n, items, k + 1,
                                 [parsed EXCEPT ![item.field] = NumberAt(s, i, n)])
               [] item.kind = "nano" ->
                    IF Char(s, i) # "."
                    THEN ParseItems(s, i, items, k + 1, parsed)
                    ELSE LET n == DigitRun(s, i + 1, item.width)
                             more == DigitRun(s, i + 1 + n, Len(s))
                         IN  IF n = 0 THEN ShortOrInvalid(s, i + 1)
                             ELSE ParseItems(s, i + 1 + n + more, items, k + 1,
                                      [parsed EXCEPT !.nano =
                                          NumberAt(s, i + 1, n) * Pow10(9 - n)])

IsLeapYear(y) == (y % 4 = 0 /\ y % 100 # 0) \/ y % 400 = 0

DaysInMonth(y, m) ==
    CASE m \in {1, 3, 5, 7, 8, 10, 12} -> 31
      [] m \in {4, 6, 9, 11} -> 30
      [] m = 2 -> IF IsLeapYear(y) THEN 29 ELSE 28
      [] OTHER -> 0

\* Parsed::to_naive_datetime_with_offset: the fields must name a calendar
\* date and a time of day; second 60 is kept as second 59 plus 10^9 ns
ToNaiveDateTime(p) ==
    IF /\ p.month \in 1..12
       /\ p.day \in 1..DaysInMonth(p.year, p.month)
       /\ p.hour \in 0..23
       /\ p.minute \in 0..59
       /\ p.second \in 0..60
    THEN Ok([year |-> p.year, month |-> p.month, day |-> p.day,
             hour |-> p.hour, minute |-> p.minute,
             second |-> IF p.second = 60 THEN 59 ELSE p.second,
             nano |-> IF p.second = 60 THEN p.nano + Pow10(9) ELSE p.nano])
    ELSE Err("OutOfRange")

ParseFromStr(s, fmt) ==
    LET r == ParseItems(s, 1, fmt, 1, NoFields)
    IN  IF r.ok THEN ToNaiveDateTime(r.val) ELSE r

\* n in decimal, zero-padded to at least w digits
RECURSIVE Pad(_, _)
Pad(n, w) ==
    IF w <= 1 THEN NatToString(n)
    ELSE IF n < Pow10(w - 1) THEN "0" \o Pad(n, w - 1)
    ELSE NatToString(n)

\* NaiveDateTime Display: date, one blank, time; the fraction is omitted when
\* zero and otherwise written with 3, 6 or 9 digits
DateTimeToString(t) ==
    LET sec == t.second + t.nano \div Pow10(9)
        ns == t.nano % Pow10(9)
        fraction ==
            IF ns = 0 THEN ""
            ELSE IF ns % 1000000 = 0 THEN "." \o Pad(ns \div 1000000, 3)
            ELSE IF ns % 1000 = 0 THEN "." \o Pad(ns \div 1000, 6)
            ELSE "." \o Pad(ns, 9)
    IN  Pad(t.year, 4) \o "-" \o Pad(t.month, 2) \o "-" \o Pad(t.day, 2)
        \o " " \o Pad(t.hour, 2) \o ":" \o Pad(t.minute, 2) \o ":"
        \o Pad(sec, 2) \o fraction

(***************************************************************************)
(* Row decoding, lines 116-220: a row is the 18 values cursor.get_data(1)  *)
(* to cursor.get_data(18) return, each None (SQL NULL) or Some(text).      *)
(***************************************************************************)
NumColumns == 18

\* variant: a NULL read as the text of zero
UnwrapOrZero(o) == IF IsSome(o) THEN Unwrap(o) ELSE "0"

UnwrapOrDefault(o) == IF IsSome(o) THEN Unwrap(o) ELSE ""

\* variant: the value of a NULL small integer is left over from the row
\* before (a buffer that is not cleared)
AndThenParseU8Stale(o) ==
    IF IsSome(o) THEN ResultOk(ParseU8(Unwrap(o)))
    ELSE IF fetched > 1 /\ IsSome(table[fetched - 1][2])
         THEN ResultOk(ParseU8(Unwrap(table[fetched - 1][2])))
         ELSE None

\* opt.and_then(|s| s.parse::<u8>().ok())
AndThenParseU8(o) ==
    IF IsSome(o) THEN ResultOk(ParseU8(Unwrap(o))) ELSE None

\* variant: the optional timestamps parsed with the format of began
AndThenParseDateTimeFraction(o) ==
    IF IsSome(o) THEN ResultOk(ParseFromStr(Unwrap(o), FormatFraction)) ELSE None

\* opt.and_then(|s| NaiveDateTime::parse_from_str(&s, "%Y-%m-%d %H:%M:%S").ok())
AndThenParseDateTime(o) ==
    IF IsSome(o) THEN ResultOk(ParseFromStr(Unwrap(o), FormatSeconds)) ELSE None

\* the error `?` returns from main for the eventnumber column, if any
EventNumberResult(row) ==
    LET r == ParseI32(UnwrapOrDefault(row[1]))
    IN  IF r.ok THEN r ELSE Err("ParseIntError { kind: " \o r.err \o " }")

\* variant: began parsed with the format of the other timestamps
BeganResultSeconds(row) ==
    IF ~IsSome(row[7]) THEN Err("Missing value for 'began'")
    ELSE LET r == ParseFromStr(Unwrap(row[7]), FormatSeconds)
         IN  IF r.ok THEN r ELSE Err("ParseError(" \o r.err \o ")")

\* the error `?` returns from main for the began column, if any
BeganResult(row) ==
    IF ~IsSome(row[7]) THEN Err("Missing value for 'began'")
    ELSE LET r == ParseFromStr(Unwrap(row[7]), FormatFraction)
         IN  IF r.ok THEN r ELSE Err("ParseError(" \o r.err \o ")")

\* Ok(event) or the first error in statement order: eventnumber (line 117)
\* is parsed before began is read (lines 160-161); no other column fails
DecodeRow(row) ==
    LET en == EventNumberResult(row)
        bg == BeganResult(row)
    IN  IF ~en.ok THEN en
        ELSE IF ~bg.ok THEN bg
        ELSE Ok([eventnumber   |-> en.val,
                 event_type    |-> AndThenParseU8(row[2]),
                 server        |-> row[3],
                 batch         |-> row[4],
                 jobnum        |-> row[5],
                 submitted     |-> AndThenParseDateTime(row[6]),
                 began         |-> bg.val,
                 ended         |-> AndThenParseDateTime(row[8]),
                 message       |-> row[9],
                 status        |-> AndThenParseU8(row[10]),
                 priority      |-> AndThenParseU8(row[11]),
                 fixedby       |-> row[12],
                 fixcomment    |-> row[13],
                 color         |-> AndThenParseU8(row[14]),
                 bkcolor       |-> AndThenParseU8(row[15]),
                 beingworkedon |-> AndThenParseU8(row[16]),
                 dateclosed    |-> AndThenParseDateTime(row[17]),
                 added         |-> AndThenParseDateTime(row[18])])

(***************************************************************************)
(* Printing, lines 222-325: 18 labelled lines and one empty line.          *)
(***************************************************************************)
\* variant: an absent string printed as the empty text (unwrap_or_default)
UnwrapOrEmpty(o) == IF IsSome(o) THEN Unwrap(o) ELSE ""

\* variant: an empty string is treated as no value
UnwrapOrNullIfEmpty(o) ==
    IF IsSome(o) /\ Unwrap(o) # "" THEN Unwrap(o) ELSE "NULL"

\* opt.unwrap_or("NULL".to_string())
UnwrapOrNull(o) == IF IsSome(o) THEN Unwrap(o) ELSE "NULL"

\* opt.map_or("NULL".to_string(), |d| d.to_string()) for Option<u8>
U8OrNull(o) == IF IsSome(o) THEN IntToString(Unwrap(o)) ELSE "NULL"

\* opt.map_or("NULL".to_string(), |d| d.to_string()) for Option<NaiveDateTime>
DateTimeOrNull(o) == IF IsSome(o) THEN DateTimeToString(Unwrap(o)) ELSE "NULL"

\* variant: the lines in field declaration order, Event Number first
RenderEventDeclarationOrder(e) ==
    << "Event Number: "    \o IntToString(e.eventnumber),
       "Event Type: "      \o U8OrNull(e.event_type),
       "Server: "          \o UnwrapOrNull(e.server),
       "Batch: "           \o UnwrapOrNull(e.batch),
       "Job Number: "      \o UnwrapOrNull(e.jobnum),
       "Submitted: "       \o DateTimeOrNull(e.submitted),
       "Began: "           \o DateTimeToString(e.began),
       "Ended: "           \o DateTimeOrNull(e.ended),
       "Message: "         \o UnwrapOrNull(e.message),
       "Status: "          \o U8OrNull(e.status),
       "Priority: "        \o U8OrNull(e.priority),
       "Fixed By: "        \o UnwrapOrNull(e.fixedby),
       "Fix Comment: "     \o UnwrapOrNull(e.fixcomment),
       "Color: "           \o U8OrNull(e.color),
       "BkColor: "         \o U8OrNull(e.bkcolor),
       "Being Worked On: " \o U8OrNull(e.beingworkedon),
       "Date Closed: "     \o DateTimeOrNull(e.dateclosed),
       "Added: "           \o DateTimeOrNull(e.added),
       "" >>

RenderEvent(e) ==
    << "Event Type: "      \o U8OrNull(e.event_type),
       "Event Number: "    \o IntToString(e.eventnumber),
       "Server: "          \o UnwrapOrNull(e.server),
       "Batch: "           \o UnwrapOrNull(e.batch),
       "Job Number: "      \o UnwrapOrNull(e.jobnum),
       "Submitted: "       \o DateTimeOrNull(e.submitted),
       "Began: "           \o DateTimeToString(e.began),
       "Ended: "           \o DateTimeOrNull(e.ended),
       "Message: "         \o UnwrapOrNull(e.message),
       "Status: "          \o U8OrNull(e.status),
       "Priority: "        \o U8OrNull(e.priority),
       "Fixed By: "        \o UnwrapOrNull(e.fixedby),
       "Fix Comment: "     \o UnwrapOrNull(e.fixcomment),
       "Color: "           \o U8OrNull(e.color),
       "BkColor: "         \o U8OrNull(e.bkcolor),
       "Being Worked On: " \o U8OrNull(e.beingworkedon),
       "Date Closed: "     \o DateTimeOrNull(e.dateclosed),
       "Added: "           \o DateTimeOrNull(e.added),
       "" >>

BlockLines == 19

NoDataDiagnostic == "Query executed, but no data returned."

(***************************************************************************)
(* The tables the query is run against.  RawX are the raw texts a column   *)
(* of kind X is tried with; a table holds either one row that differs from *)
(* a base row in one column (or in both required columns), or up to        *)
(* MaxRows of the core rows.                                               *)
(***************************************************************************)
MaxRows == 3

RawEventNumbers ==
    {None} \cup {Some(t) : t \in
        {"42", "-7", "+5", "007", "0", "2147483647", "-2147483648",
         "2147483648", "-2147483649", "", "-", "abc", "4 2", "12a", "1.0"}}

RawSmallIntegers ==
    {None} \cup {Some(t) : t \in
        {"3", "0", "255", "256", "300", "-1", "-0", "+7", "007", "1000",
         "", "abc", "1.5", " 1"}}

RawBegans ==
    {None} \cup {Some(t) : t \in
        {"2024-01-15 10:30:00.123456", "2024-01-15 10:30:00",
         "2024-02-29 23:59:59.999999", "2023-02-29 23:59:59.999999",
         "2024-13-01 00:00:00.000000", "2024-01-15 24:00:00.000000",
         "2024-01-15 10:30:00.5", "2024-01-15 10:30:00.",
         "2024-01-15 10:30:00.123456789", "2024-01-15 10:30:00.123456Z",
         "2024-01-15T10:30:00.123456", "2024-1-5 1:2:3.250000",
         "2016-12-31 23:59:60.000000", "2024-01-15", "began", ""}}

RawTimestamps ==
    {None} \cup {Some(t) : t \in
        {"2024-01-15 10:30:00", "2024-01-15 10:30:00.123456",
         "2024-01-15 10:30:00.000", "2024-02-30 10:30:00",
         "2024-01-15 10:30", "2024-01-15T10:30:00", "2024-1-5 1:2:3",
         "15/01/2024 10:30:00", "yesterday", ""}}

RawStrings ==
    {None} \cup {Some(t) : t \in {"", "ok", "B1", "NULL", " padded ", "300"}}

SmallIntegerColumns == {2, 10, 11, 14, 15, 16}

TimestampColumns == {6, 8, 17, 18}

StringColumns == {3, 4, 5, 9, 12, 13}

RawValues(col) ==
    CASE col = 1 -> RawEventNumbers
      [] col = 7 -> RawBegans
      [] col \in SmallIntegerColumns -> RawSmallIntegers
      [] col \in TimestampColumns -> RawTimestamps
      [] col \in StringColumns -> RawStrings

\* the row of the first scenario of the testable properties
ScenarioRow ==
    << Some("42"), Some("3"), None, Some("B1"), None, None,
       Some("2024-01-15 10:30:00.123456"), None, Some("ok"), Some("1"),
       None, None, None, None, None, None, None, None >>

\* every optional column NULL
AbsentRow ==
    << Some("-7"), None, None, None, None, None,
       Some("2024-02-29 23:59:59.999999"), None, None, None,
       None, None, None, None, None, None, None, None >>

\* every column present and well-formed
FullRow ==
    << Some("2147483647"), Some("0"), Some("srv01"), Some("B2"), Some("J-9"),
       Some("2024-01-15 10:29:58"), Some("2024-01-15 10:30:00"),
       Some("2024-01-15 10:31:00"), Some(""), Some("255"), Some("+7"),
       Some("amy"), Some("NULL"), Some("007"), Some("12"), Some("1"),
       Some("2024-01-16 00:00:00"), Some("2023-12-31 23:59:59") >>

\* every optional column present, the typed ones malformed
MalformedRow ==
    << Some("+5"), Some("300"), Some("s"), Some("b"), Some("j"),
       Some("2024-01-15 10:30:00.123456"), Some("2024-01-15 10:30:00.5"),
       Some("2024-02-30 10:30:00"), Some("m"), Some("abc"), Some("-1"),
       Some("f"), Some("c"), Some("256"), Some(""), Some("1.5"),
       Some("yesterday"), Some("2024-01-15 10:30:00.000") >>

\* eventnumber NULL
NoEventNumberRow == [ScenarioRow EXCEPT ![1] = None]

\* began without its day
BadBeganRow == [FullRow EXCEPT ![7] = Some("2024-01 10:30:00.123456")]

BaseRows == {ScenarioRow, AbsentRow, FullRow, MalformedRow}

CoreRows == BaseRows \cup {NoEventNumberRow, BadBeganRow}

WideRows ==
    UNION { UNION { {[b EXCEPT ![col] = v] : v \in RawValues(col)}
                    : col \in 1..NumColumns }
            : b \in BaseRows }
    \cup {[ScenarioRow EXCEPT ![1] = v, ![7] = w] :
             v \in RawEventNumbers, w \in RawBegans}

Tables ==
    {<<>>} \cup {<<r>> : r \in WideRows}
    \cup UNION {[1..n -> CoreRows] : n \in 1..MaxRows}

(***************************************************************************)
(* The run of main                                                         *)
(***************************************************************************)
Init ==
    /\ pc = "environment"
    /\ table \in Tables
    /\ resultSet = "none"
    /\ fetched = 0
    /\ cursor = None
    /\ event = None
    /\ stdout = <<>>
    /\ stderr = <<>>
    /\ exit = "running"
    /\ runs = 1
    /\ history = {}

\* variant: the error is written but main returns Ok
ReturnErrAsOk(e) ==
    /\ pc' = "exited"
    /\ exit' = "success"
    /\ stderr' = Append(stderr, "Error: " \o e)

\* main returns Err(e): the runtime writes the error to the error stream and
\* the exit status is 1
ReturnErr(e) ==
    /\ pc' = "exited"
    /\ exit' = "failure"
    /\ stderr' = Append(stderr, "Error: " \o e)

\* line 57, Environment::new() is Ok
NewEnvironment ==
    /\ pc = "environment"
    /\ pc' = "connect"
    /\ UNCHANGED <<table, resultSet, fetched, cursor, event, stdout, stderr,
                   exit, runs, history>>

\* line 57, Environment::new() is Err: unwrap() panics
NewEnvironmentPanic ==
    /\ pc = "environment"
    /\ pc' = "exited"
    /\ exit' = "panic"
    /\ stderr' = Append(stderr, "thread 'main' panicked")
    /\ UNCHANGED <<table, resultSet, fetched, cursor, event, stdout, runs,
                   history>>

\* line 58, the connection is made
Connect ==
    /\ pc = "connect"
    /\ pc' = "statement"
    /\ UNCHANGED <<table, resultSet, fetched, cursor, event, stdout, stderr,
                   exit, runs, history>>

\* line 58, connect_with_connection_string is Err
ConnectFail ==
    /\ pc = "connect"
    /\ ReturnErr("connection failed")
    /\ UNCHANGED <<table, resultSet, fetched, cursor, event, stdout, runs,
                   history>>

\* line 73, the statement is allocated
WithParent ==
    /\ pc = "statement"
    /\ pc' = "exec_direct"
    /\ UNCHANGED <<table, resultSet, fetched, cursor, event, stdout, stderr,
                   exit, runs, history>>

\* line 73, Statement::with_parent is Err
WithParentFail ==
    /\ pc = "statement"
    /\ ReturnErr("statement allocation failed")
    /\ UNCHANGED <<table, resultSet, fetched, cursor, event, stdout, runs,
                   history>>

\* lines 96 and 106, exec_direct is Ok(Data(stmt)): the statement has a result
\* set, of any number of rows
ExecDirectData ==
    /\ pc = "exec_direct"
    /\ resultSet' = "Data"
    /\ pc' = "fetch"
    /\ UNCHANGED <<table, fetched, cursor, event, stdout, stderr, exit, runs,
                   history>>

\* lines 96, 328 and 331, exec_direct is Ok(NoData(_)): the driver reports
\* that the statement produced nothing; the diagnostic is written and main
\* returns Ok
ExecDirectNoData ==
    /\ pc = "exec_direct"
    /\ table = <<>>
    /\ resultSet' = "NoData"
    /\ stderr' = Append(stderr, NoDataDiagnostic)
    /\ pc' = "exited"
    /\ exit' = "success"
    /\ UNCHANGED <<table, fetched, cursor, event, stdout, runs, history>>

\* line 96, exec_direct is Err
ExecDirectFail ==
    /\ pc = "exec_direct"
    /\ ReturnErr("query failed")
    /\ UNCHANGED <<table, resultSet, fetched, cursor, event, stdout, runs,
                   history>>

\* variant: the next row is fetched as soon as the Event is built, before
\* its block is written
FetchRowAhead ==
    /\ pc \in {"fetch", "print"}
    /\ fetched < Len(table)
    /\ cursor' = Some(table[fetched + 1])
    /\ fetched' = fetched + 1
    /\ pc' = "decode"
    /\ UNCHANGED <<table, resultSet, event, stdout, stderr, exit, runs,
                   history>>

\* line 107, stmt.fetch() is Some(cursor)
FetchRow ==
    /\ pc = "fetch"
    /\ fetched < Len(table)
    /\ cursor' = Some(table[fetched + 1])
    /\ fetched' = fetched + 1
    /\ pc' = "decode"
    /\ UNCHANGED <<table, resultSet, event, stdout, stderr, exit, runs,
                   history>>

\* lines 107 and 331, stmt.fetch() is None: the loop ends and main returns Ok
FetchEnd ==
    /\ pc = "fetch"
    /\ fetched = Len(table)
    /\ pc' = "exited"
    /\ exit' = "success"
    /\ UNCHANGED <<table, resultSet, fetched, cursor, event, stdout, stderr,
                   runs, history>>

\* lines 116-220, every column decoded and the Event built
Decode ==
    /\ pc = "decode"
    /\ DecodeRow(Unwrap(cursor)).ok
    /\ event' = Some(DecodeRow(Unwrap(cursor)).val)
    /\ pc' = "print"
    /\ UNCHANGED <<table, resultSet, fetched, cursor, stdout, stderr, exit,
                   runs, history>>

\* variant: the error is reported and the loop goes on to the next row
DecodeFailSkip ==
    /\ pc = "decode"
    /\ ~DecodeRow(Unwrap(cursor)).ok
    /\ stderr' = Append(stderr, "Error: " \o DecodeRow(Unwrap(cursor)).err)
    /\ cursor' = None
    /\ pc' = "fetch"
    /\ UNCHANGED <<table, resultSet, fetched, event, stdout, exit, runs,
                   history>>

\* lines 117, 160 and 161, `?` returns the error of a required column
DecodeFail ==
    /\ pc = "decode"
    /\ ~DecodeRow(Unwrap(cursor)).ok
    /\ ReturnErr(DecodeRow(Unwrap(cursor)).err)
    /\ history' = history \cup
          {<<Unwrap(cursor), <<stderr'[Len(stderr')]>>, runs, fetched>>}
    /\ UNCHANGED <<table, resultSet, fetched, cursor, event, stdout, runs>>

\* lines 222-326, the block is written and the iteration ends
WriteBlock ==
    /\ pc = "print"
    /\ stdout' = stdout \o RenderEvent(Unwrap(event))
    /\ history' = history \cup
          {<<Unwrap(cursor), RenderEvent(Unwrap(event)), runs, fetched>>}
    /\ cursor' = None
    /\ event' = None
    /\ pc' = "fetch"
    /\ UNCHANGED <<table, resultSet, fetched, stderr, exit, runs>>

Next ==
    \/ NewEnvironment
    \/ NewEnvironmentPanic
    \/ Connect
    \/ ConnectFail
    \/ WithParent
    \/ WithParentFail
    \/ ExecDirectData
    \/ ExecDirectNoData
    \/ ExecDirectFail
    \/ FetchRow
    \/ FetchEnd
    \/ Decode
    \/ DecodeFail
    \/ WriteBlock

Spec == Init /\ [][Next]_vars

(***************************************************************************)
(* The program started again on a table of at most MaxRerunRows rows,      *)
(* at most MaxRuns times: every run starts from the state Init describes,  *)
(* only the record of decoded rows is kept.                                *)
(***************************************************************************)
MaxRuns == 2

MaxRerunRows == 2

RerunRows == {ScenarioRow, FullRow, NoEventNumberRow, BadBeganRow}

RerunTables == {<<>>} \cup UNION {[1..n -> RerunRows] : n \in 1..MaxRerunRows}

InitRerun ==
    /\ Init
    /\ table \in RerunTables

Restart ==
    /\ pc = "exited"
    /\ runs < MaxRuns
    /\ runs' = runs + 1
    /\ pc' = "environment"
    /\ table' \in RerunTables
    /\ resultSet' = "none"
    /\ fetched' = 0
    /\ cursor' = None
    /\ event' = None
    /\ stdout' = <<>>
    /\ stderr' = <<>>
    /\ exit' = "running"
    /\ UNCHANGED history

NextRerun == Next \/ Restart

SpecRerun == InitRerun /\ [][NextRerun]_vars

(***************************************************************************)
(* Vocabulary of the properties: what a raw text denotes, read off its     *)
(* characters rather than through the parsers above, and the place of a    *)
(* row and of a column in the output.                                      *)
(***************************************************************************)
\* the text without its sign
Unsigned(s) == IF Char(s, 1) \in {"+", "-"} THEN SubSeq(s, 2, Len(s)) ELSE s

IsNegativeText(s) == Char(s, 1) = "-"

AllDigits(t) == Len(t) >= 1 /\ \A i \in 1..Len(t) : IsDigit(Char(t, i))

\* an optional sign and one or more decimal digits
IsIntegerText(s) == AllDigits(Unsigned(s))

\* a digit string without its leading zeros (one digit at least is kept)
RECURSIVE Significant(_)
Significant(t) ==
    IF Len(t) > 1 /\ Char(t, 1) = "0" THEN Significant(SubSeq(t, 2, Len(t)))
    ELSE t

\* a <= b for digit strings of the same length, from position i on
RECURSIVE DigitsLeq(_, _, _)
DigitsLeq(a, b, i) ==
    \/ i > Len(a)
    \/ DigitVal(Char(a, i)) < DigitVal(Char(b, i))
    \/ /\ Char(a, i) = Char(b, i)
       /\ DigitsLeq(a, b, i + 1)

\* the number written t is at most the number written bound
MagnitudeAtMost(t, bound) ==
    \/ Len(Significant(t)) < Len(bound)
    \/ /\ Len(Significant(t)) = Len(bound)
       /\ DigitsLeq(Significant(t), bound, 1)

IsZeroText(s) == Significant(Unsigned(s)) = "0"

\* the decimal text of an integer of -2^31 .. 2^31 - 1
IsI32Text(s) ==
    /\ IsIntegerText(s)
    /\ MagnitudeAtMost(Unsigned(s),
           IF IsNegativeText(s) THEN "2147483648" ELSE "2147483647")

\* the shortest decimal text of the integer s denotes
CanonicalInteger(s) ==
    IF IsNegativeText(s) /\ ~IsZeroText(s)
    THEN "-" \o Significant(Unsigned(s))
    ELSE Significant(Unsigned(s))

\* an integer text whose number is not one of 0..255
DenotesOutsideU8(s) ==
    /\ IsIntegerText(s)
    /\ \/ IsNegativeText(s) /\ ~IsZeroText(s)
       \/ ~MagnitudeAtMost(Unsigned(s), "255")

\* the number a digit string writes
RECURSIVE Decimal(_)
Decimal(t) ==
    IF Len(t) = 0 THEN 0
    ELSE Decimal(SubSeq(t, 1, Len(t) - 1)) * 10 + DigitVal(Char(t, Len(t)))

\* the calendar fields of a text laid out as YYYY-MM-DD HH:MM:SS[.ffffff]
TimestampFields(s) ==
    [year   |-> Decimal(SubSeq(s, 1, 4)),
     month  |-> Decimal(SubSeq(s, 6, 7)),
     day    |-> Decimal(SubSeq(s, 9, 10)),
     hour   |-> Decimal(SubSeq(s, 12, 13)),
     minute |-> Decimal(SubSeq(s, 15, 16)),
     second |-> Decimal(SubSeq(s, 18, 19)),
     nano   |-> IF Len(s) > 20 THEN Decimal(SubSeq(s, 21, 26)) * 1000 ELSE 0]

\* s is YYYY-MM-DD HH:MM:SS.ffffff and names a date and a time of day
IsFractionTimestampText(s) ==
    /\ Len(s) = 26
    /\ \A i \in 1..26 :
          CASE i \in {5, 8} -> Char(s, i) = "-"
            [] i = 11 -> Char(s, i) = " "
            [] i \in {14, 17} -> Char(s, i) = ":"
            [] i = 20 -> Char(s, i) = "."
            [] OTHER -> IsDigit(Char(s, i))
    /\ LET f == TimestampFields(s)
       IN  /\ f.month \in 1..12
           /\ f.day \in 1..DaysInMonth(f.year, f.month)
           /\ f.hour \in 0..23
           /\ f.minute \in 0..59
           /\ f.second \in 0..59

\* the eventnumber raw value is present and well-formed
EventNumberWellFormed(row) == IsSome(row[1]) /\ IsI32Text(Unwrap(row[1]))

\* the began raw value is present and accepted by the format of began
BeganParseable(row) ==
    IsSome(row[7]) /\ ParseFromStr(Unwrap(row[7]), FormatFraction).ok

ColumnLabel ==
    << "Event Number", "Event Type", "Server", "Batch", "Job Number",
       "Submitted", "Began", "Ended", "Message", "Status", "Priority",
       "Fixed By", "Fix Comment", "Color", "BkColor", "Being Worked On",
       "Date Closed", "Added" >>

\* the line of a block that shows column col
LineOfColumn(col) == IF col = 1 THEN 2 ELSE IF col = 2 THEN 1 ELSE col

OptionalColumns == (1..NumColumns) \ {1, 7}

\* the Event field decoded from column col
FieldOfColumn(e, col) ==
    << e.eventnumber, e.event_type, e.server, e.batch, e.jobnum, e.submitted,
       e.began, e.ended, e.message, e.status, e.priority, e.fixedby,
       e.fixcomment, e.color, e.bkcolor, e.beingworkedon, e.dateclosed,
       e.added >>[col]

BlocksWritten == Len(stdout) \div BlockLines

\* the k-th block of standard output
Block(k) == SubSeq(stdout, (k - 1) * BlockLines + 1, k * BlockLines)

\* row k of the table has been fetched and its decoding has run
Decoded(k) == k < fetched \/ (k = fetched /\ pc # "decode")

\* the blocks of rows 1..n of the table, all of them decodable
RECURSIVE BlocksOfRows(_)
BlocksOfRows(n) ==
    IF n = 0 THEN <<>>
    ELSE BlocksOfRows(n - 1) \o RenderEvent(DecodeRow(table[n]).val)

(***************************************************************************)
(* Properties                                                              *)
(***************************************************************************)

\* C1: a row whose eventnumber is present and is the decimal text of a signed
\* 32-bit integer, and whose began is present and is a timestamp written
\* YYYY-MM-DD HH:MM:SS.ffffff, always decodes, whatever its other 16 raw
\* values, and the Event holds exactly the integer and the timestamp (to the
\* microsecond) the two texts denote.
C1_RequiredFieldsDecodeExactly ==
    (/\ IsSome(cursor)
     /\ pc # "decode"
     /\ EventNumberWellFormed(Unwrap(cursor))
     /\ IsSome(Unwrap(cursor)[7])
     /\ IsFractionTimestampText(Unwrap(Unwrap(cursor)[7])))
    => /\ pc = "print"
       /\ exit = "running"
       /\ IsSome(event)
       /\ IntToString(Unwrap(event).eventnumber)
              = CanonicalInteger(Unwrap(Unwrap(cursor)[1]))
       /\ Unwrap(event).began = TimestampFields(Unwrap(Unwrap(cursor)[7]))

\* C1 witness: such a row, with a malformed optional column and a fraction
\* that is not zero, has been decoded.
C1_Witness ==
    /\ pc = "print"
    /\ IsSome(event)
    /\ cursor = Some([ScenarioRow EXCEPT ![2] = Some("300")])
    /\ Unwrap(event).began.nano = 123456000
    /\ Unwrap(event).eventnumber = 42

\* C2: when the eventnumber of a row is absent or not the text of a signed
\* 32-bit integer, or its began is absent or rejected by the format of began,
\* decoding ends the run with an error and standard output holds no line of
\* that row: it holds the blocks of the rows before it and nothing else.
C2_RequiredFieldErrorWritesNothing ==
    (/\ IsSome(cursor)
     /\ pc # "decode"
     /\ \/ ~EventNumberWellFormed(Unwrap(cursor))
        \/ ~BeganParseable(Unwrap(cursor)))
    => /\ pc = "exited"
       /\ exit = "failure"
       /\ event = None
       /\ Len(stdout) = (fetched - 1) * BlockLines
       /\ Len(stderr) = 1

\* C2 witness: the second row of a table has no eventnumber and the run has
\* ended on it, after the block of the first row.
C2_Witness ==
    /\ pc = "exited"
    /\ fetched = 2
    /\ cursor = Some(NoEventNumberRow)
    /\ Len(stdout) = BlockLines
    /\ exit = "failure"

\* C3: once a row k with a malformed required column has been decoded the run
\* is over: it has failed, row k is the last row that was fetched (so no later
\* row is fetched, decoded or printed and row k is not skipped), and standard
\* output is exactly the blocks of rows 1..k-1 in table order.
C3_FatalErrorAbortsRun ==
    \A k \in 1..fetched :
        (/\ Decoded(k)
         /\ \/ ~EventNumberWellFormed(table[k])
            \/ ~BeganParseable(table[k]))
        => /\ pc = "exited"
           /\ exit = "failure"
           /\ fetched = k
           /\ cursor = Some(table[k])
           /\ \A i \in 1..(k - 1) :
                 EventNumberWellFormed(table[i]) /\ BeganParseable(table[i])
           /\ stdout = BlocksOfRows(k - 1)

\* C3 witness: the run has failed on the second of three rows.
C3_Witness ==
    /\ exit = "failure"
    /\ IsSome(cursor)
    /\ fetched = 2
    /\ Len(table) = 3
    /\ stdout = RenderEvent(DecodeRow(table[1]).val)

\* the raw text is not an integer text, or its number is outside 0..255
MalformedSmallInteger(t) == ~IsIntegerText(t) \/ DenotesOutsideU8(t)

\* decoding did not end the run on row k
NotAbortedOn(k) == ~(pc = "exited" /\ fetched = k /\ IsSome(cursor))

\* C4: a present raw value of event_type, status, priority, color, bkcolor or
\* beingworkedon that is not numeric or denotes a number outside 0..255 raises
\* no error: a row whose required columns are well-formed still decodes, the
\* run goes on, the field is absent in the Event, and its line reads
\* '<Label>: NULL'.
C4_MalformedSmallIntegerIsAbsent ==
    \A k \in 1..fetched : \A col \in SmallIntegerColumns :
        (/\ Decoded(k)
         /\ IsSome(table[k][col])
         /\ MalformedSmallInteger(Unwrap(table[k][col]))
         /\ EventNumberWellFormed(table[k])
         /\ BeganParseable(table[k]))
        => /\ NotAbortedOn(k)
           /\ k > BlocksWritten =>
                 /\ k = fetched
                 /\ pc = "print"
                 /\ exit = "running"
                 /\ FieldOfColumn(Unwrap(event), col) = None
           /\ k <= BlocksWritten =>
                 Block(k)[LineOfColumn(col)] = ColumnLabel[col] \o ": NULL"

\* C4 witness: event_type "300" was printed as NULL and the run went on to
\* the next row.
C4_Witness ==
    /\ Len(table) = 2
    /\ table[1] = MalformedRow
    /\ table[1][2] = Some("300")
    /\ BlocksWritten >= 1
    /\ stdout[1] = "Event Type: NULL"
    /\ fetched = 2
    /\ exit = "running"

C6_AbsentOptionalIsNull ==
    \A k \in 1..fetched : \A col \in OptionalColumns :
        (Decoded(k) /\ table[k][col] = None)
        => /\ (k = fetched /\ pc = "print") =>
                 FieldOfColumn(Unwrap(event), col) = None
           /\ k <= BlocksWritten =>
                 Block(k)[LineOfColumn(col)] = ColumnLabel[col] \o ": NULL"

\* C6 witness: the row with all 16 optional columns absent has been printed.
C6_Witness ==
    /\ BlocksWritten >= 1
    /\ table[1] = AbsentRow
    /\ \A col \in OptionalColumns :
          stdout[LineOfColumn(col)] = ColumnLabel[col] \o ": NULL"

\* C7: when the query succeeds and returns no row, nothing is written to
\* standard output, the one line 'Query executed, but no data returned.' is
\* written to the error stream, and the run ends normally.
C7_EmptyStreamDiagnostic ==
    (pc = "exited" /\ resultSet # "none" /\ table = <<>>)
    => /\ stdout = <<>>
       /\ stderr = <<NoDataDiagnostic>>
       /\ exit = "success"

\* the labels in the order of the lines of a block
LineLabels ==
    << "Event Type", "Event Number", "Server", "Batch", "Job Number",
       "Submitted", "Began", "Ended", "Message", "Status", "Priority",
       "Fixed By", "Fix Comment", "Color", "BkColor", "Being Worked On",
       "Date Closed", "Added" >>

HasPrefix(line, prefix) ==
    Len(line) >= Len(prefix) /\ SubSeq(line, 1, Len(prefix)) = prefix

\* C8: standard output is one block per decoded row, in table order: 18
\* lines that start with the labels Event Type, Event Number, Server, ...,
\* Added in this order, each followed by ': ', then one empty line, whichever
\* values are present.
C8_BlockLayout ==
    /\ Len(stdout) = BlockLines * (IF IsSome(cursor) THEN fetched - 1 ELSE fetched)
    /\ \A k \in 1..BlocksWritten :
          /\ \A i \in 1..NumColumns :
                HasPrefix(Block(k)[i], LineLabels[i] \o ": ")
          /\ Block(k)[BlockLines] = ""
          /\ Block(k)[2] = "Event Number: "
                              \o CanonicalInteger(Unwrap(table[k][1]))

\* C8 witness: two rows with different present values have been printed.
C8_Witness ==
    /\ BlocksWritten = 2
    /\ table[1] = FullRow
    /\ table[2] = AbsentRow
    /\ stdout[1] = "Event Type: 0"
    /\ stdout[BlockLines + 1] = "Event Type: NULL"
    /\ stdout[BlockLines + 2] = "Event Number: -7"

\* C9: a run that has ended has a non-zero status after every fatal error
\* (no connection, no statement or query, a malformed required column) and
\* the status of success exactly when it wrote the no-data diagnostic or the
\* blocks of all rows of the result set; when the connection or the query
\* failed, standard output is empty.
C9_ExitStatus ==
    pc = "exited" =>
        /\ exit \in {"success", "failure", "panic"}
        /\ exit = "success" <=>
              \/ resultSet = "NoData" /\ stderr = <<NoDataDiagnostic>>
              \/ /\ resultSet = "Data"
                 /\ fetched = Len(table)
                 /\ Len(stdout) = BlockLines * Len(table)
        /\ resultSet = "none" => (exit # "success" /\ stdout = <<>>)
        /\ IsSome(cursor) => exit = "failure"

\* C9 witness: the query failed on a table that holds rows.
C9_Witness ==
    /\ pc = "exited"
    /\ exit = "failure"
    /\ stderr = <<"Error: query failed">>
    /\ Len(table) > 0
    /\ stdout = <<>>

C11_StringsPassThrough ==
    \A k \in 1..fetched : \A col \in StringColumns :
        Decoded(k) =>
           /\ (EventNumberWellFormed(table[k]) /\ BeganParseable(table[k]))
                 => /\ NotAbortedOn(k)
                    /\ k > BlocksWritten => (k = fetched /\ pc = "print")
           /\ (k = fetched /\ pc = "print") =>
                 FieldOfColumn(Unwrap(event), col) = table[k][col]
           /\ (k <= BlocksWritten /\ IsSome(table[k][col])) =>
                 Block(k)[LineOfColumn(col)]
                    = ColumnLabel[col] \o ": " \o Unwrap(table[k][col])

\* C11 witness: a row with an empty message, the text NULL as fixcomment and
\* ordinary texts elsewhere has been printed.
C11_Witness ==
    /\ BlocksWritten >= 1
    /\ table[1] = FullRow
    /\ table[1][9] = Some("")
    /\ stdout[9] = "Message: "
    /\ stdout[3] = "Server: srv01"
    /\ stdout[13] = "Fix Comment: NULL"

\* rows 1..n of the table are decodable and stdout starts with their blocks
InOrder(n) ==
    \A k \in 1..n :
        /\ DecodeRow(table[k]).ok
        /\ Block(k) = RenderEvent(DecodeRow(table[k]).val)

\* C12: rows are taken one at a time: while row k is being processed
\* standard output is exactly the complete blocks of rows 1..k-1, in table
\* order; a row is fetched only when the block of the row before it is
\* complete and no row or Event is held; and a run that ends normally on a
\* table of n rows has written exactly n blocks.
C12_OneRowAtATime ==
    /\ [](/\ Len(stdout) =
                BlockLines * (IF IsSome(cursor) THEN fetched - 1 ELSE fetched)
          /\ InOrder(BlocksWritten)
          /\ (pc = "exited" /\ exit = "success") =>
                (BlocksWritten = Len(table) /\ fetched = Len(table)))
    /\ [][fetched' # fetched =>
             /\ fetched' = fetched + 1
             /\ cursor = None
             /\ event = None
             /\ Len(stdout) = BlockLines * fetched
             /\ stdout' = stdout
             /\ cursor' = Some(table[fetched'])]_vars

\* C12 witness: a run over three rows has ended normally with three blocks,
\* the first two from different rows.
C12_Witness ==
    /\ pc = "exited"
    /\ exit = "success"
    /\ Len(table) = 3
    /\ BlocksWritten = 3
    /\ table[1] # table[2]
    /\ Block(1) # Block(2)

====
